---- MODULE Spec2Model ----
(***************************************************************************)
(* Model of the hyperparameter sweep of MLFLOW/wine-ml.ipynb: the search   *)
(* cell (with mlflow.start_run(): fmin(objective, space, tpe.suggest,      *)
(* max_evals, trials) ... log the best) and model_train, which runs every  *)
(* trial inside a nested MLflow run.                                       *)
(*                                                                         *)
(* Real-valued quantities are put on small integer grids: a learning rate  *)
(* is a point of LrLo..LrHi, a momentum a point of MomLo..MomHi, a finite  *)
(* eval_rmse a point of 1..MaxLoss.  The two non-finite floats that        *)
(* model.evaluate can hand back keep their IEEE-754 comparison rules.      *)
(***************************************************************************)
EXTENDS Integers, Sequences, FiniteSets, TLC

\* Bounds of the model.
MaxBudget == 3
MaxLoss == 2

\* The search space (grid abstraction of the two hp. domains).
LrLo == 1
LrHi == 2
MomLo == 0
MomHi == 1

\* Non-finite values of the float eval_rmse.
NaN == -1
PosInf == MaxLoss + 1

VARIABLES
    pc,        \* position of the control thread in the notebook
    orch,      \* Idle, Running, Completed, Aborted: the state of the search cell
    budget,    \* max_evals of the running search
    runs,      \* the tracking store: sequence of run records, run id = index
    stack,     \* mlflow's stack of active runs (run ids), innermost last
    trials,    \* hyperopt's Trials: the results recorded so far, in order
    params,    \* the configuration of the trial under way
    loss,      \* eval_rmse of the trial under way
    best,      \* what fmin returned
    best_run,  \* sorted(trials.results, key = loss)[0]
    exc,       \* the exception in flight (or that ended the cell), "none" if none
    excAt,     \* the position at which that exception was raised
    trainer,   \* number of model_train calls made, and of those that raised
    output,    \* what the cell printed
    clock      \* logical time of the tracking store

vars == <<pc, orch, budget, runs, stack, trials, params, loss, best, best_run,
          exc, excAt, trainer, output, clock>>

----------------------------------------------------------------------------
\* Values

\* Python values that are logged as params: a float, and the string str(x) of a
\* float x (float(str(x)) == x for every float).
PyFloat(n) == [type |-> "float", val |-> n]
PyStr(x) == [type |-> "str", val |-> x.val]

\* The learning rates lie on a grid of powers of two, so that np.log and the
\* exponential of a log-uniform draw are exact on the grid.
RECURSIVE Pow2(_)
Pow2(u) == IF u <= 0 THEN 1 ELSE 2 * Pow2(u - 1)
Log2(x) == CHOOSE u \in 0..x : Pow2(u) = x

\* space: "lr" is hp.loguniform("lr", np.log(lo), np.log(hi)), "momentum" is
\* hp.uniform("momentum", lo, hi); each entry holds the two arguments given.
SpaceArgsNoLog == [lr |-> <<LrLo, LrHi>>, momentum |-> <<MomLo, MomHi>>]
SpaceArgs == [lr |-> <<Log2(LrLo), Log2(LrHi)>>, momentum |-> <<MomLo, MomHi>>]

\* A log-uniform draw is the exponential of a uniform draw between its two
\* arguments, a uniform draw lies between its two arguments.  The
\* configurations tpe.suggest is let to propose are the two opposite corners
\* of the space.
Configs == {[lr |-> PyFloat(Pow2(SpaceArgs.lr[k])),
             momentum |-> PyFloat(SpaceArgs.momentum[k])] : k \in 1..2}
Losses == (1..MaxLoss) \cup {PosInf, NaN}

NoParams == [k \in {} |-> 0]
None == [none |-> TRUE]

\* Python's float comparison: every comparison with NaN is False.
FloatLt(a, b) == a # NaN /\ b # NaN /\ a < b

----------------------------------------------------------------------------
\* The tracking store (mlflow fluent API)

\* A run as start_run creates it.
NewRun(parent, t) ==
    [parent |-> parent, status |-> "RUNNING", params |-> NoParams,
     metrics |-> <<>>, artifacts |-> {}, start |-> t, end |-> 0]

\* The run the fluent calls write to: the innermost active run.
ActiveRunOutermost(st) == st[1]
ActiveRun(st) == st[Len(st)]

\* start_run(nested = True) records the active run as the parent of the new one;
\* a run started with an empty stack has no parent (0).
ParentNone(st) == 0
ParentOf(st) == IF st = <<>> THEN 0 ELSE ActiveRun(st)

\* ActiveRun.__exit__: FINISHED when the scope is left normally, FAILED when it
\* is left by an exception (KeyboardInterrupt included).
ExitStatusFinished(e) == "FINISHED"
ExitStatus(e) == IF e = "none" THEN "FINISHED" ELSE "FAILED"

\* end_run(status) on run id: status and end time are set.
EndRunNoStatus(rs, id, status, t) ==
    [rs EXCEPT ![id] = [@ EXCEPT !.end = t]]
EndRun(rs, id, status, t) ==
    [rs EXCEPT ![id] = [@ EXCEPT !.status = status, !.end = t]]

\* log_params: every key is added with the string str(value) as its value; a
\* key already logged keeps its value (MLflow refuses to change a logged param,
\* the caller gets an MlflowException).
ParamsConflict(r, mapping) ==
    \E k \in DOMAIN mapping \cap DOMAIN r.params : r.params[k] # PyStr(mapping[k])
LogParamsRaw(r, mapping) ==
    [r EXCEPT !.params =
        [k \in DOMAIN mapping \cup DOMAIN r.params |->
            IF k \in DOMAIN r.params THEN r.params[k] ELSE mapping[k]]]
LogParams(r, mapping) ==
    [r EXCEPT !.params =
        [k \in DOMAIN mapping \cup DOMAIN r.params |->
            IF k \in DOMAIN r.params THEN r.params[k] ELSE PyStr(mapping[k])]]

\* log_metric(name, value): one more (name, value, step) entry; step defaults to 0.
LogMetricSkip(r, name, value) == r
LogMetric(r, name, value) ==
    [r EXCEPT !.metrics = Append(@, <<name, value, 0>>)]

\* log_model(model, "model"): the artifact path now holds that model.
LogModelSkip(r, name, model) == r
LogModel(r, name, model) ==
    [r EXCEPT !.artifacts = @ \cup {<<name, model>>}]

\* end_run takes the ended run off the stack of active runs.
PopRunKeeps(st) == st
PopRun(st) == SubSeq(st, 1, Len(st) - 1)

\* Where an exception raised at this point unwinds to first: the innermost
\* enclosing with-block is the child run's when one is open.
UnwindTop(st) == "unwind_top"
Unwind(st) == IF Len(st) > 1 THEN "unwind_child" ELSE "unwind_top"

----------------------------------------------------------------------------
\* hyperopt and sorted()

\* Trials.best_trial: the lowest non-NaN loss, the first one on a tie.
Candidates(ts) == {i \in 1..Len(ts) : ts[i].loss # NaN}
BestTrial(ts) ==
    CHOOSE i \in Candidates(ts) :
        \A j \in Candidates(ts) :
            ts[i].loss < ts[j].loss \/ (ts[i].loss = ts[j].loss /\ i <= j)

\* CPython's list sort on fewer than 64 elements: count_run finds the leading
\* run (reversed when strictly descending), binarysort inserts the rest.
ISLT(a, b) == FloatLt(a.loss, b.loss)

RECURSIVE CountRun(_, _, _)
CountRun(s, i, desc) ==
    IF i > Len(s) THEN Len(s)
    ELSE IF desc
         THEN IF ISLT(s[i], s[i - 1]) THEN CountRun(s, i + 1, desc) ELSE i - 1
         ELSE IF ISLT(s[i], s[i - 1]) THEN i - 1 ELSE CountRun(s, i + 1, desc)

ReversePrefix(s, n) ==
    [i \in 1..Len(s) |-> IF i <= n THEN s[n + 1 - i] ELSE s[i]]

\* l, r are 0-based offsets as in binarysort.
RECURSIVE BinarySearch(_, _, _, _)
BinarySearch(s, pivot, l, r) ==
    IF l >= r THEN l
    ELSE LET p == l + ((r - l) \div 2)
         IN  IF ISLT(pivot, s[p + 1])
             THEN BinarySearch(s, pivot, l, p)
             ELSE BinarySearch(s, pivot, p + 1, r)

InsertAt(s, from, to) ==
    [i \in 1..Len(s) |->
        IF i < to \/ i > from THEN s[i]
        ELSE IF i = to THEN s[from] ELSE s[i - 1]]

RECURSIVE BinarySort(_, _)
BinarySort(s, start) ==
    IF start > Len(s) THEN s
    ELSE LET l == BinarySearch(s, s[start], 0, start - 1)
         IN  BinarySort(InsertAt(s, start, l + 1), start + 1)

PySorted(ts) ==
    IF Len(ts) < 2 THEN ts
    ELSE LET desc == ISLT(ts[2], ts[1])
             n == CountRun(ts, 3, desc)
             s == IF desc THEN ReversePrefix(ts, n) ELSE ts
         IN  BinarySort(s, n + 1)

----------------------------------------------------------------------------
\* The notebook

Init ==
    /\ pc = "idle"
    /\ orch = "Idle"
    /\ budget = 0
    /\ runs = <<>>
    /\ stack = <<>>
    /\ trials = <<>>
    /\ params = None
    /\ loss = 0
    /\ best = None
    /\ best_run = None
    /\ exc = "none"
    /\ excAt = "none"
    /\ trainer = [calls |-> 0, raised |-> 0]
    /\ output = <<>>
    /\ clock = 0

\* with mlflow.start_run(): trials = Trials(); fmin(..., max_evals = B, ...)
RunSearch ==
    /\ pc = "idle"
    /\ \E B \in 1..MaxBudget : budget' = B
    /\ runs' = Append(runs, NewRun(ParentOf(stack), clock + 1))
    /\ stack' = Append(stack, Len(runs) + 1)
    /\ clock' = clock + 1
    /\ trials' = <<>>
    /\ orch' = "Running"
    /\ pc' = "fmin"
    /\ UNCHANGED <<params, loss, best, best_run, exc, excAt, trainer, output>>

\* fmin's loop: while fewer than max_evals trials are recorded, tpe.suggest
\* proposes a configuration of the space and objective(params) is called.
Propose ==
    /\ pc = "fmin"
    /\ Len(trials) < budget
    /\ \E cfg \in Configs : params' = cfg
    /\ trainer' = [trainer EXCEPT !.calls = @ + 1]
    /\ pc' = "model_train"
    /\ UNCHANGED <<orch, budget, runs, stack, trials, loss, best, best_run,
                   exc, excAt, output, clock>>

\* model_train before its with-block: the model is built and compiled.
BuildModel ==
    /\ pc = "model_train"
    /\ pc' = "start_child"
    /\ UNCHANGED <<orch, budget, runs, stack, trials, params, loss, best,
                   best_run, exc, excAt, trainer, output, clock>>

\* with mlflow.start_run(nested = True):
StartChildRun ==
    /\ pc = "start_child"
    /\ runs' = Append(runs, NewRun(ParentOf(stack), clock + 1))
    /\ stack' = Append(stack, Len(runs) + 1)
    /\ clock' = clock + 1
    /\ pc' = "fit"
    /\ UNCHANGED <<orch, budget, trials, params, loss, best, best_run, exc,
                   excAt, trainer, output>>

\* model.fit(...); eval_rmse = model.evaluate(...)[1]
FitAndEvaluate ==
    /\ pc = "fit"
    /\ \E l \in Losses : loss' = l
    /\ pc' = "log_params"
    /\ UNCHANGED <<orch, budget, runs, stack, trials, params, best, best_run,
                   exc, excAt, trainer, output, clock>>

\* Building, fitting or evaluating the model raises.
TrainerRaises ==
    /\ pc \in {"model_train", "fit"}
    /\ exc' = "TrainerFailure"
    /\ excAt' = pc
    /\ trainer' = [trainer EXCEPT !.raised = @ + 1]
    /\ pc' = Unwind(stack)
    /\ UNCHANGED <<orch, budget, runs, stack, trials, params, loss, best,
                   best_run, output, clock>>

\* mlflow.log_params(params = params)
LogChildParams ==
    /\ pc = "log_params"
    /\ IF ParamsConflict(runs[ActiveRun(stack)], params)
       THEN /\ exc' = "MlflowException"
            /\ excAt' = pc
            /\ pc' = Unwind(stack)
            /\ UNCHANGED runs
       ELSE /\ runs' = [runs EXCEPT ![ActiveRun(stack)] = LogParams(@, params)]
            /\ pc' = "log_metric"
            /\ UNCHANGED <<exc, excAt>>
    /\ UNCHANGED <<orch, budget, stack, trials, params, loss, best, best_run,
                   trainer, output, clock>>

\* mlflow.log_metric("eval_rmse", eval_rmse)
LogChildMetric ==
    /\ pc = "log_metric"
    /\ runs' = [runs EXCEPT ![ActiveRun(stack)] = LogMetric(@, "eval_rmse", loss)]
    /\ pc' = "log_model"
    /\ UNCHANGED <<orch, budget, stack, trials, params, loss, best, best_run,
                   exc, excAt, trainer, output, clock>>

\* mlflow.tensorflow.log_model(model, "model", signature = signature); the model
\* object of a trial is named by the number of the model_train call that built it.
LogChildModel ==
    /\ pc = "log_model"
    /\ runs' = [runs EXCEPT ![ActiveRun(stack)] = LogModel(@, "model", trainer.calls)]
    /\ pc' = "return"
    /\ UNCHANGED <<orch, budget, stack, trials, params, loss, best, best_run,
                   exc, excAt, trainer, output, clock>>

\* The child with-block is left, by the return statement or by an exception.
ExitChildScope ==
    /\ pc \in {"return", "unwind_child"}
    /\ runs' = EndRun(runs, ActiveRun(stack), ExitStatus(exc), clock + 1)
    /\ stack' = PopRun(stack)
    /\ clock' = clock + 1
    /\ pc' = IF exc = "none" THEN "record" ELSE "unwind_top"
    /\ UNCHANGED <<orch, budget, trials, params, loss, best, best_run, exc,
                   excAt, trainer, output>>

\* (the same store, were the new result put in front of the earlier ones)
RecordTrialFirst ==
    /\ pc = "record"
    /\ trials' = <<[config |-> params, loss |-> loss,
                    status |-> "ok", model |-> trainer.calls]>> \o trials
    /\ pc' = "fmin"
    /\ UNCHANGED <<orch, budget, runs, stack, params, loss, best, best_run,
                   exc, excAt, trainer, output, clock>>

\* (the same step, were the result dropped instead of stored)
RecordTrialDrops ==
    /\ pc = "record"
    /\ pc' = "fmin"
    /\ UNCHANGED <<orch, budget, runs, stack, trials, params, loss, best,
                   best_run, exc, excAt, trainer, output, clock>>

\* objective returns {"loss", "status", "model"}; fmin stores it in trials.
RecordTrial ==
    /\ pc = "record"
    /\ trials' = Append(trials, [config |-> params, loss |-> loss,
                                 status |-> "ok", model |-> trainer.calls])
    /\ pc' = "fmin"
    /\ UNCHANGED <<orch, budget, runs, stack, params, loss, best, best_run,
                   exc, excAt, trainer, output, clock>>

\* fmin returns trials.argmin once max_evals trials are recorded; best_trial
\* raises AllTrialsFailed when no trial has a loss that is a number.
FminReturns ==
    /\ pc = "fmin"
    /\ Len(trials) >= budget
    /\ IF Candidates(trials) = {}
       THEN /\ exc' = "AllTrialsFailed"
            /\ excAt' = pc
            /\ pc' = Unwind(stack)
            /\ UNCHANGED best
       ELSE /\ best' = trials[BestTrial(trials)].config
            /\ pc' = "sorted"
            /\ UNCHANGED <<exc, excAt>>
    /\ UNCHANGED <<orch, budget, runs, stack, trials, params, loss, best_run,
                   trainer, output, clock>>

\* best_run = sorted(trials.results, key = lambda x: x["loss"])[0]
SelectBestRun ==
    /\ pc = "sorted"
    /\ best_run' = PySorted(trials)[1]
    /\ pc' = "top_log_params"
    /\ UNCHANGED <<orch, budget, runs, stack, trials, params, loss, best, exc,
                   excAt, trainer, output, clock>>

\* mlflow.log_params(best)
LogBestParams ==
    /\ pc = "top_log_params"
    /\ IF ParamsConflict(runs[ActiveRun(stack)], best)
       THEN /\ exc' = "MlflowException"
            /\ excAt' = pc
            /\ pc' = Unwind(stack)
            /\ UNCHANGED runs
       ELSE /\ runs' = [runs EXCEPT ![ActiveRun(stack)] = LogParams(@, best)]
            /\ pc' = "top_log_metric"
            /\ UNCHANGED <<exc, excAt>>
    /\ UNCHANGED <<orch, budget, stack, trials, params, loss, best, best_run,
                   trainer, output, clock>>

\* mlflow.log_metric("eval_rmse", best_run["loss"])
LogBestMetric ==
    /\ pc = "top_log_metric"
    /\ runs' = [runs EXCEPT ![ActiveRun(stack)] =
                    LogMetric(@, "eval_rmse", best_run.loss)]
    /\ pc' = "top_log_model"
    /\ UNCHANGED <<orch, budget, stack, trials, params, loss, best, best_run,
                   exc, excAt, trainer, output, clock>>

\* mlflow.tensorflow.log_model(best_run["model"], "model", signature = signature)
LogBestModel ==
    /\ pc = "top_log_model"
    /\ runs' = [runs EXCEPT ![ActiveRun(stack)] =
                    LogModel(@, "model", best_run.model)]
    /\ pc' = "print"
    /\ UNCHANGED <<orch, budget, stack, trials, params, loss, best, best_run,
                   exc, excAt, trainer, output, clock>>

\* print(f"Best parameters: {best}"); print(f"Best eval rmse: {best_run['loss']}")
PrintBest ==
    /\ pc = "print"
    /\ output' = <<best, best_run.loss>>
    /\ pc' = "exit_top"
    /\ UNCHANGED <<orch, budget, runs, stack, trials, params, loss, best,
                   best_run, exc, excAt, trainer, clock>>

\* The top-level with-block is left, at its end or by an exception.
ExitTopScope ==
    /\ pc \in {"exit_top", "unwind_top"}
    /\ runs' = EndRun(runs, ActiveRun(stack), ExitStatus(exc), clock + 1)
    /\ stack' = PopRun(stack)
    /\ clock' = clock + 1
    /\ orch' = IF exc = "none" THEN "Completed" ELSE "Aborted"
    /\ pc' = "done"
    /\ UNCHANGED <<budget, trials, params, loss, best, best_run, exc, excAt,
                   trainer, output>>

\* Positions inside the top-level with-block at which nothing is being unwound.
RunningPcs ==
    {"fmin", "model_train", "start_child", "fit", "log_params", "log_metric",
     "log_model", "return", "record", "sorted", "top_log_params",
     "top_log_metric", "top_log_model", "print", "exit_top"}

\* Positions of a call into the tracking server.
RecorderPcs ==
    {"start_child", "log_params", "log_metric", "log_model", "top_log_params",
     "top_log_metric", "top_log_model"}

\* The user interrupts the kernel: KeyboardInterrupt is raised where the control
\* thread stands; neither fmin nor model_train catches it.
Cancel ==
    /\ pc \in RunningPcs
    /\ exc' = "KeyboardInterrupt"
    /\ excAt' = pc
    /\ pc' = Unwind(stack)
    /\ UNCHANGED <<orch, budget, runs, stack, trials, params, loss, best,
                   best_run, trainer, output, clock>>

\* A call into the tracking server fails (the server at the tracking URI cannot
\* be reached): the call raises and writes nothing.
RecorderFails ==
    /\ pc \in RecorderPcs
    /\ exc' = "MlflowException"
    /\ excAt' = pc
    /\ pc' = Unwind(stack)
    /\ UNCHANGED <<orch, budget, runs, stack, trials, params, loss, best,
                   best_run, trainer, output, clock>>

Next ==
    \/ RunSearch
    \/ Propose
    \/ BuildModel
    \/ StartChildRun
    \/ FitAndEvaluate
    \/ TrainerRaises
    \/ LogChildParams
    \/ LogChildMetric
    \/ LogChildModel
    \/ ExitChildScope
    \/ RecordTrial
    \/ FminReturns
    \/ SelectBestRun
    \/ LogBestParams
    \/ LogBestMetric
    \/ LogBestModel
    \/ PrintBest
    \/ ExitTopScope
    \/ Cancel
    \/ RecorderFails

Spec == Init /\ [][Next]_vars

\* The steps the control thread takes by itself once the cell is running: a
\* call returns or raises.  (Starting the cell and interrupting the kernel are
\* the user's steps.)
Advance ==
    \/ Propose
    \/ BuildModel
    \/ StartChildRun
    \/ FitAndEvaluate
    \/ TrainerRaises
    \/ LogChildParams
    \/ LogChildMetric
    \/ LogChildModel
    \/ ExitChildScope
    \/ RecordTrial
    \/ FminReturns
    \/ SelectBestRun
    \/ LogBestParams
    \/ LogBestMetric
    \/ LogBestModel
    \/ PrintBest
    \/ ExitTopScope
    \/ RecorderFails

\* The search left to itself: the cell is started and nobody interrupts it.
Uninterrupted ==
    \/ RunSearch
    \/ Advance

\* Every call of the control thread eventually returns or raises.
FairSpec == Init /\ [][Uninterrupted]_vars /\ WF_vars(Advance)

----------------------------------------------------------------------------
\* Vocabulary of the claims

Top == 1
Children(rs) == {i \in 1..Len(rs) : i # Top}
Sealed(r) == r.status \in {"FINISHED", "FAILED"}
AllSealed(rs) == \A i \in 1..Len(rs) : Sealed(rs[i])
OpenChildren(rs) == {i \in Children(rs) : rs[i].status = "RUNNING"}

\* Positions at which control is with the search loop, outside every trial.
OrchestratorPcs ==
    {"fmin", "sorted", "top_log_params", "top_log_metric", "top_log_model",
     "print", "exit_top", "done"}
\* Positions inside the child run's with-block.
ChildScopePcs == {"fit", "log_params", "log_metric", "log_model", "return"}
\* Positions after the loop, where the best result is logged.
TopLogPcs == {"top_log_params", "top_log_metric", "top_log_model"}

----------------------------------------------------------------------------
\* C1: for every budget B >= 1, when run_search(B) returns there are exactly B
\* child runs under the top-level run and every one of them is sealed, whatever
\* mix of trials succeeded or raised.
C1_BudgetSealedChildren ==
    (pc = "done" /\ exc \in {"none", "TrainerFailure"}) =>
        /\ Cardinality(Children(runs)) = budget
        /\ \A i \in Children(runs) : runs[i].parent = Top /\ Sealed(runs[i])

\* C2: at the end of a search the selected best trial is a recorded trial whose
\* score is <= the score of every recorded trial, and among the trials with that
\* score it is the earliest recorded one.  A score that is not a number is
\* ranked as the worst possible score, +infinity.
Rank(l) == IF l = NaN THEN PosInf ELSE l

C2_BestIsEarliestMinimum ==
    (best_run # None) =>
        \E b \in 1..Len(trials) :
            /\ trials[b] = best_run
            /\ \A i \in 1..Len(trials) : Rank(best_run.loss) <= Rank(trials[i].loss)
            /\ \A i \in 1..Len(trials) :
                   Rank(trials[i].loss) = Rank(best_run.loss) => b <= i

\* C3: with a trainer that raises on every call the search still performs all
\* B trials, records B results all with score +infinity, and ends Completed.
C3_AlwaysRaisingTrainerCompletes ==
    (pc = "done" /\ trainer.calls >= 1 /\ trainer.raised = trainer.calls) =>
        /\ trainer.calls = budget
        /\ Len(trials) = budget
        /\ \A i \in 1..Len(trials) : trials[i].loss = PosInf
        /\ orch = "Completed"

\* C4: every run that is begun is ended on every exit path of its scope: when
\* the training body raises inside the child run's scope that child is sealed
\* failed, and whenever control is back with the search loop no child run is
\* open; when the cell has ended no run is open at all.
C4_ScopedRuns ==
    /\ pc \in OrchestratorPcs => OpenChildren(runs) = {}
    /\ pc = "done" => AllSealed(runs) /\ stack = <<>>
    /\ (exc = "TrainerFailure" /\ excAt \in ChildScopePcs
            /\ pc \in {"unwind_top", "done"}) =>
           runs[Len(runs)].status = "FAILED" /\ runs[Len(runs)].end # 0

C4_Witness ==
    /\ pc = "done"
    /\ exc = "TrainerFailure"
    /\ excAt = "fit"
    /\ Len(trials) = 1
    /\ Len(runs) = 3
    /\ runs[2].status = "FINISHED"
    /\ runs[3].status = "FAILED"

\* C5: every child run has the one top-level run as its parent, and the
\* top-level run's lifetime strictly contains each child's: the top-level run
\* is begun before and sealed after every child, and is open in every step
\* that begins, writes to or seals a child run.
C5_ParentInv ==
    /\ \A i \in 1..Len(runs) : (runs[i].parent = 0) <=> (i = Top)
    /\ \A i \in Children(runs) :
        /\ runs[i].parent = Top
        /\ runs[Top].start < runs[i].start
        /\ runs[i].status = "RUNNING" => runs[Top].status = "RUNNING"
        /\ runs[Top].end # 0 =>
               runs[i].end # 0 /\ runs[i].end < runs[Top].end

C5_ChildTouched ==
    \/ Len(runs') > Len(runs) /\ Len(runs) >= 1
    \/ \E i \in Children(runs) : runs'[i] # runs[i]

C5_ParentContainsChildren ==
    /\ []C5_ParentInv
    /\ [][C5_ChildTouched =>
            runs[Top].status = "RUNNING" /\ runs'[Top].status = "RUNNING"]_vars

C5_Witness ==
    /\ pc = "log_metric"
    /\ Len(runs) = 3
    /\ runs[2].status = "FINISHED"
    /\ runs[3].status = "RUNNING"
    /\ runs[3].parent = Top
    /\ runs[3].params # NoParams

\* C6: the search enters Completed only after all budget trials are terminal,
\* and then in this order: the best trial is selected over all recorded trials,
\* its configuration and its score are logged on the top-level run while that
\* run is open, the top-level run is sealed completed, and the selection and
\* the trials are what the cell leaves behind.
C6_CompletedOrder ==
    /\ pc \in TopLogPcs \cup {"print", "exit_top"} =>
        /\ Len(trials) = budget
        /\ OpenChildren(runs) = {}
        /\ best_run = PySorted(trials)[1]
        /\ runs[Top].status = "RUNNING"
    /\ orch = "Completed" =>
        /\ pc = "done"
        /\ Len(trials) = budget
        /\ Cardinality(Children(runs)) = budget
        /\ \A i \in Children(runs) : Sealed(runs[i])
        /\ runs[Top].status = "FINISHED"
        /\ runs[Top].params = [k \in DOMAIN best_run.config |->
                                    PyStr(best_run.config[k])]
        /\ runs[Top].metrics = <<(<<"eval_rmse", best_run.loss, 0>>)>>
        /\ output = <<best_run.config, best_run.loss>>

\* C7: an error raised outside the scope of a single trial while the search is
\* running ends the search Aborted: the top-level run is sealed failed, the
\* error reaches the caller, and every child run sealed before keeps exactly
\* the record it had.
OutsideTrialPcs == {"fmin"} \cup TopLogPcs
InfraErrors == {"MlflowException", "AllTrialsFailed"}

C7_AbortedInv ==
    (exc \in InfraErrors /\ excAt \in OutsideTrialPcs) =>
        /\ \A i \in Children(runs) : Sealed(runs[i])
        /\ pc = "done" =>
            /\ orch = "Aborted"
            /\ runs[Top].status = "FAILED"
            /\ runs[Top].end # 0
            /\ stack = <<>>

CancelledBetweenTrials ==
    /\ pc = "done"
    /\ exc = "KeyboardInterrupt"
    /\ excAt \in {"fmin", "model_train", "start_child"}
    /\ Len(trials) < budget

Cancelled == pc = "done" /\ exc = "KeyboardInterrupt"

----------------------------------------------------------------------------
\* C12: once a run is sealed its status, end time, params, metrics and
\* artifacts are the same in every later state, whatever is done afterwards.
C12_SealedNeverChange ==
    [][\A i \in 1..Len(runs) :
          Sealed(runs[i]) => i <= Len(runs') /\ runs'[i] = runs[i]]_vars

C12_Witness ==
    /\ pc = "done"
    /\ orch = "Completed"
    /\ budget = 2
    /\ runs[2].status = "FINISHED"
    /\ runs[2].end < runs[3].start
    /\ runs[2].params # NoParams
    /\ Len(runs[Top].metrics) = 1
    /\ runs[Top].artifacts # {}

\* C13: the best model is promoted (logged as the model of the search) exactly
\* once per search, only after the search has reached Completed, and with the
\* artifact, configuration and score of the selected best trial; never while
\* the search is Running or after it Aborted.
Promoted == Len(runs) >= 1 /\ runs[Top].artifacts # {}

C13_PromotedOnceAfterCompleted ==
    /\ Promoted =>
        /\ orch = "Completed"
        /\ runs[Top].artifacts = {<<"model", best_run.model>>}
        /\ runs[Top].params = [k \in DOMAIN best_run.config |->
                                    PyStr(best_run.config[k])]
        /\ runs[Top].metrics = <<(<<"eval_rmse", best_run.loss, 0>>)>>
    /\ orch = "Completed" => Promoted

\* C14: when every trial of a search fails (it raised, or its score is not
\* finite), a best trial is still selected, with score +infinity, the caller is
\* told that no usable model was found, and no artifact is promoted.
EveryTrialFailed ==
    /\ pc = "done"
    /\ exc \in {"none", "TrainerFailure", "AllTrialsFailed"}
    /\ trainer.calls >= 1
    /\ trainer.raised + Len(trials) = trainer.calls
    /\ \A i \in 1..Len(trials) : Rank(trials[i].loss) = PosInf

C14_AllFailedNothingPromoted ==
    EveryTrialFailed =>
        /\ best_run # None
        /\ Rank(best_run.loss) = PosInf
        /\ exc # "none" \/ output = <<>>
        /\ ~Promoted

\* C15: every search that reaches Completed reports the number of succeeded and
\* the number of failed trials (after the best parameters and the best loss);
\* the two sum to the budget and are the numbers of child runs sealed completed
\* and sealed failed.
SealedAs(status) == Cardinality({i \in Children(runs) : runs[i].status = status})

C15_ReportCountsTrials ==
    orch = "Completed" =>
        /\ Len(output) >= 4
        /\ output[3] = SealedAs("FINISHED")
        /\ output[4] = SealedAs("FAILED")
        /\ output[3] + output[4] = budget

\* C16: a trial whose training raised or whose score was not finite is recorded
\* with score +infinity, a score that is not a number is never recorded, and
\* such a trial is selected as the best only if every trial has score
\* +infinity.
C16_NonFiniteRecordedAsInfinity ==
    /\ \A i \in 1..Len(trials) : trials[i].loss # NaN
    /\ (pc = "done" /\ exc = "TrainerFailure") =>
        /\ Len(trials) = trainer.calls
        /\ trials[Len(trials)].loss = PosInf
    /\ (best_run # None /\ Rank(best_run.loss) = PosInf) =>
        \A i \in 1..Len(trials) : Rank(trials[i].loss) = PosInf

\* C18: every proposed configuration, hence the configuration of every recorded
\* trial and of the selected best, has exactly the declared names as keys, a
\* learning rate inside [LrLo, LrHi] and a momentum inside [MomLo, MomHi].
InDomain(c) ==
    /\ DOMAIN c = {"lr", "momentum"}
    /\ c.lr.type = "float" /\ c.lr.val \in LrLo..LrHi
    /\ c.momentum.type = "float" /\ c.momentum.val \in MomLo..MomHi

C18_ConfigurationsInDomain ==
    /\ params # None => InDomain(params)
    /\ \A i \in 1..Len(trials) : InDomain(trials[i].config)
    /\ best # None => InDomain(best)
    /\ best_run # None => InDomain(best_run.config)

C18_Witness ==
    /\ pc = "done"
    /\ orch = "Completed"
    /\ budget = 3
    /\ trials[1].config.lr = PyFloat(LrLo)
    /\ trials[2].config.lr = PyFloat(LrHi)
    /\ trials[2].config.momentum = PyFloat(MomHi)
    /\ best = trials[2].config
    /\ best_run = trials[2]

\* C20 (as stated): the params read back from a sealed run are exactly the
\* mapping that was logged: the same keys, and the same value for each key.
\* The mapping logged on a child run is the configuration of its trial, the
\* mapping logged on the top-level run is what fmin returned.
LoggedOn(i) ==
    IF i = Top THEN best
    ELSE IF i - 1 <= Len(trials) THEN trials[i - 1].config ELSE params

HasParams(i) == Sealed(runs[i]) /\ runs[i].params # NoParams

ParseFloat(x) == [type |-> "float", val |-> x.val]

----------------------------------------------------------------------------
\* The child run of the n-th model_train call, when that call got to begin one:
\* runs are numbered in the order they are begun, the top-level run first.
ChildOfCall(n) == n + 1

\* Positions at which model_train is executing its training work: building and
\* compiling the model, fitting and evaluating it.
TrainerPcs == {"model_train", "start_child", "fit"}
\* Positions of the three log calls of model_train and of its return.
ChildLogPcs == {"log_params", "log_metric", "log_model", "return"}

\* What holds of the steps of a trial whichever way the Trainer and the begin
\* of the child run are ordered: one trial at a time, the log calls write to the
\* open child run of the trial under way (params, then metric, then artifact),
\* the child run is sealed before the result is appended, and the child runs of
\* recorded trials do not overlap in time.
C22_StepsInv ==
    /\ trainer.calls \in {Len(trials), Len(trials) + 1}
    /\ pc = "fmin" => trainer.calls = Len(trials)
    /\ Cardinality(OpenChildren(runs)) <= 1
    /\ pc \in ChildLogPcs =>
        /\ stack = <<Top, ChildOfCall(trainer.calls)>>
        /\ runs[ChildOfCall(trainer.calls)].status = "RUNNING"
        /\ runs[ChildOfCall(trainer.calls)].parent = Top
        /\ (runs[ChildOfCall(trainer.calls)].params # NoParams) <=> (pc # "log_params")
        /\ (runs[ChildOfCall(trainer.calls)].metrics # <<>>) <=>
               (pc \in {"log_model", "return"})
        /\ (runs[ChildOfCall(trainer.calls)].artifacts # {}) <=> (pc = "return")
    /\ pc = "record" =>
        /\ trainer.calls = Len(trials) + 1
        /\ Sealed(runs[ChildOfCall(trainer.calls)])
    /\ \A k \in 1..Len(trials) :
        /\ Sealed(runs[ChildOfCall(k)])
        /\ k < Len(trials) => runs[ChildOfCall(k)].end < runs[ChildOfCall(k + 1)].start

C22_StepsNext ==
    /\ Len(trials') > Len(trials) =>
        /\ trials' = Append(trials, trials'[Len(trials')])
        /\ Len(trials') = trainer.calls
        /\ Sealed(runs[ChildOfCall(Len(trials'))])
    /\ trainer'.calls > trainer.calls =>
        /\ Len(trials) = trainer.calls
        /\ OpenChildren(runs) = {}

----------------------------------------------------------------------------
\* A result carries no run id: its owner is the child run that holds the model
\* the result carries.
Owners(t) == {i \in Children(runs) : <<"model", t.model>> \in runs[i].artifacts}

\* The search stops at the first model_train call that raises, so the call that
\* raised, if any did, is the last one made.
RaisedIn(n) == exc = "TrainerFailure" /\ n = trainer.calls

\* C23: for every trial, the child run is sealed failed exactly when the Trainer
\* raised in that trial and completed otherwise, and the result appended for a
\* failed trial has score +infinity and that child run as its owner.
C23_ChildFailedIffTrainerRaised ==
    (pc = "done" /\ exc \in {"none", "TrainerFailure"}) =>
        \A n \in 1..trainer.calls :
            /\ ChildOfCall(n) \in 1..Len(runs)
            /\ Sealed(runs[ChildOfCall(n)])
            /\ (runs[ChildOfCall(n)].status = "FAILED") <=> RaisedIn(n)
            /\ RaisedIn(n) =>
                /\ n \in 1..Len(trials)
                /\ trials[n].loss = PosInf
                /\ Owners(trials[n]) = {ChildOfCall(n)}

\* C24: the recorded results are append-only during a search: every step leaves
\* the sequence as it was or adds one result at its end, and the history the
\* proposer has before it when it proposes for trial n is exactly the n-1
\* results of the earlier trials, in the order the trials completed.
InCompletionOrder(ts) ==
    \A k \in 1..Len(ts) :
        /\ ts[k].model = k
        /\ k < Len(ts) => runs[ChildOfCall(k)].end < runs[ChildOfCall(k + 1)].end

C24_AppendOnlyHistory ==
    [][/\ \/ trials' = trials
          \/ /\ Len(trials') = Len(trials) + 1
             /\ SubSeq(trials', 1, Len(trials)) = trials
       /\ trainer'.calls = trainer.calls + 1 =>
            /\ Len(trials) = trainer.calls
            /\ InCompletionOrder(trials)]_vars

C24_Witness ==
    /\ pc = "model_train"
    /\ trainer.calls = 3
    /\ Len(trials) = 2
    /\ trials[1].loss = 2
    /\ trials[2].loss = 1
    /\ trials[1].config # trials[2].config

\* C25: when the search ends Completed there are exactly B results and exactly
\* B child runs, the owner of the i-th result is the i-th child run begun, and
\* no two results share an owner.
C25_ResultsMatchChildRuns ==
    orch = "Completed" =>
        /\ Len(trials) = budget
        /\ Cardinality(Children(runs)) = budget
        /\ \A i \in 1..Len(trials) : Owners(trials[i]) = {ChildOfCall(i)}
        /\ \A i, j \in 1..Len(trials) :
               i # j => Owners(trials[i]) \cap Owners(trials[j]) = {}

C25_Witness ==
    /\ orch = "Completed"
    /\ budget = 3
    /\ Len(trials) = 3
    /\ Owners(trials[3]) = {4}
    /\ trials[1].loss = trials[3].loss

----------------------------------------------------------------------------
\* C26: the state of the search only moves Idle -> Running (the step that
\* begins the top-level run), Running -> Completed and Running -> Aborted;
\* Completed and Aborted are terminal; no trial is started and no child run is
\* begun outside Running; the top-level run is open exactly while Running.
OrchMoves ==
    {<<"Idle", "Running">>, <<"Running", "Completed">>, <<"Running", "Aborted">>}

C26_StateInv ==
    /\ orch \in {"Idle", "Running", "Completed", "Aborted"}
    /\ orch = "Idle" => runs = <<>>
    /\ (orch = "Running") <=> (Len(runs) >= 1 /\ runs[Top].status = "RUNNING")

C26_OrchestratorStates ==
    /\ []C26_StateInv
    /\ [][/\ orch' # orch =>
               /\ <<orch, orch'>> \in OrchMoves
               /\ orch = "Idle" => runs = <<>> /\ Len(runs') = 1
               /\ orch = "Running" => Sealed(runs'[Top])
          /\ orch \in {"Completed", "Aborted"} => orch' = orch /\ runs' = runs
          /\ (trainer'.calls > trainer.calls \/ Len(runs') > Len(runs)) =>
               \/ orch = "Running" /\ orch' = "Running"
               \/ orch = "Idle" /\ orch' = "Running" /\ trainer' = trainer]_vars

C26_Witness ==
    /\ orch = "Aborted"
    /\ pc = "done"
    /\ exc = "AllTrialsFailed"
    /\ budget = 2
    /\ runs[Top].status = "FAILED"
    /\ Len(runs) = 3

\* C27: a trial, successful or failed, leaves unchanged what it does not own:
\* the top-level run's record, every child run sealed before, and every result
\* recorded before.  (The datasets and the search space are assigned by no
\* statement of model_train or objective; the model holds them constant.)
TrialPcs ==
    {"fmin", "model_train", "start_child", "fit", "log_params", "log_metric",
     "log_model", "return", "unwind_child", "record"}

C27_TrialStep ==
    pc \in TrialPcs =>
        /\ runs'[Top] = runs[Top]
        /\ \A i \in Children(runs) : Sealed(runs[i]) => runs'[i] = runs[i]
        /\ Len(trials') >= Len(trials)
        /\ \A k \in 1..Len(trials) : trials'[k] = trials[k]

C28_BestAndBestRunSameTrial ==
    best_run # None =>
        /\ \E b \in 1..Len(trials) : trials[b] = best_run /\ trials[b].config = best
        /\ \A k \in DOMAIN runs[Top].params :
               runs[Top].params[k] = PyStr(best_run.config[k])
        /\ \A i \in 1..Len(runs[Top].metrics) :
               runs[Top].metrics[i] = <<"eval_rmse", best_run.loss, 0>>
        /\ runs[Top].artifacts \subseteq {<<"model", best_run.model>>}

\* C29: the stack of active runs is always empty, [top-level] or [top-level,
\* one child]; at most one child run is open; the stack is [top-level] at
\* every proposal and when the best result is logged; a trial's log calls write
\* only to that trial's child run and the final log calls only to the
\* top-level run.
C29_StackInv ==
    /\ \/ stack = <<>>
       \/ stack = <<Top>>
       \/ stack = <<Top, Len(runs)>> /\ Len(runs) \in Children(runs)
    /\ OpenChildren(runs) = {stack[i] : i \in 2..Len(stack)}
    /\ pc \in {"fmin"} \cup TopLogPcs => stack = <<Top>>

C29_ActiveRunStack ==
    /\ []C29_StackInv
    /\ [][/\ pc \in {"log_params", "log_metric", "log_model"} =>
               \A i \in 1..Len(runs) :
                   i # ChildOfCall(trainer.calls) => runs'[i] = runs[i]
          /\ pc \in TopLogPcs =>
               \A i \in Children(runs) : runs'[i] = runs[i]
          /\ trainer'.calls > trainer.calls => stack = <<Top>>]_vars

C29_Witness ==
    /\ pc = "top_log_metric"
    /\ stack = <<Top>>
    /\ budget = 2
    /\ runs[Top].params # NoParams
    /\ runs[2].params # runs[3].params
    /\ \A i \in Children(runs) : runs[i].status = "FINISHED"

\* C30: every child run sealed completed holds exactly one params mapping (the
\* configuration of its trial, keys lr and momentum, as log_params stores it),
\* exactly one eval_rmse metric entry and exactly one model artifact, and the
\* score of the trial's result is the eval_rmse value logged in that child run.
C30_CompletedChildHoldsOneOfEach ==
    \A i \in Children(runs) : runs[i].status = "FINISHED" =>
        /\ DOMAIN runs[i].params = {"lr", "momentum"}
        /\ \A k \in DOMAIN runs[i].params :
               runs[i].params[k] = PyStr(LoggedOn(i)[k])
        /\ Len(runs[i].metrics) = 1
        /\ runs[i].metrics[1][1] = "eval_rmse"
        /\ runs[i].artifacts = {<<"model", i - 1>>}
        /\ i - 1 <= Len(trials) =>
            /\ trials[i - 1].loss = runs[i].metrics[1][2]
            /\ trials[i - 1].model = i - 1

C30_Witness ==
    /\ orch = "Completed"
    /\ budget = 2
    /\ runs[2].metrics = <<(<<"eval_rmse", NaN, 0>>)>>
    /\ trials[1].loss = NaN
    /\ runs[3].metrics = <<(<<"eval_rmse", 1, 0>>)>>
    /\ trials[2].loss = 1

----------------------------------------------------------------------------
\* C31: provided every Trainer call and every Recorder call eventually returns
\* or raises, a running search eventually reaches Completed or Aborted, having
\* made at most B model_train calls and begun at most B child runs.
C31_Bounded ==
    /\ trainer.calls <= budget
    /\ Cardinality(Children(runs)) <= budget
    /\ Len(trials) <= budget

C31_TerminatesWithinBudget ==
    /\ []C31_Bounded
    /\ (orch = "Running") ~> (orch \in {"Completed", "Aborted"})

C31_Witness ==
    /\ pc = "done"
    /\ orch = "Completed"
    /\ budget = 3
    /\ trainer.calls = 3
    /\ Cardinality(Children(runs)) = 3
    /\ stack = <<>>

====
